---------------------------- MODULE Spec2Model ----------------------------
(***************************************************************************)
(* Citrix service status report: main.py (the logging variant) and Main.py *)
(* (the plain variant).  One run of main(): fetch the region/service       *)
(* mapping, fetch and aggregate the service statuses, build the HTML       *)
(* report, save it to citrix_service_status_report.html, mail it.          *)
(*                                                                         *)
(* The two upstream responses are consumed record by record: region_data   *)
(* and status_data hold the records the loops have iterated over so far.   *)
(* The HTML string is modelled by its content (the numbers and the list    *)
(* entries it prints); the order in which a Python set is iterated is not  *)
(* modelled, so the <ul> lists are sets of entries.                        *)
(***************************************************************************)
EXTENDS Naturals, Sequences, FiniteSets

VARIABLES
    script,            \* which file runs: "main" (src/main.py) or "Main" (src/Main.py)
    pc,                \* position of the run in main()
    region_fetch,      \* how fetch_data ended for the regions endpoint
    status_fetch,      \* how fetch_data ended for the statuses endpoint
    region_data,       \* region records iterated so far (get_region_services: data)
    status_data,       \* service records iterated so far (get_service_statuses: data)
    region_services,   \* get_region_services: region_services
    service_statuses,  \* get_service_statuses: service_statuses
    overall_status,    \* get_service_statuses: overall_status
    report,            \* main: report (<<>> until create_report has returned one)
    file,              \* content of citrix_service_status_report.html (<<>>: no content)
    use_tls,           \* send_email: use_tls
    smtp_raised,       \* the SMTP call that raised, "" when none did
    log,               \* what the run logged or printed about errors
    error              \* the exception that ended the run, "" when none did

vars == <<script, pc, region_fetch, status_fetch, region_data, status_data,
          region_services, service_statuses, overall_status, report, file,
          use_tls, smtp_raised, log, error>>

----------------------------------------------------------------------------
(* Bounds of the model *)

MaxRegions == 2
MaxServiceIds == 2
MaxRecords == 2

Scripts == {"main", "Main"}
RegionNames == {"EU", "US"}
ServiceIds == {"s1", "s2"}
ServiceNames == {"Gateway", "Workspace"}
\* 1 = up, 2 = degraded, 3 = down; 4 stands for any code the API does not list
StatusCodes == {1, 2, 3, 4}

IdLists == UNION {[1..n -> ServiceIds] : n \in 0..MaxServiceIds}
RegionRecords == [name : RegionNames, service_ids : IdLists]
ServiceRecords == [service_id : ServiceIds, service_name : ServiceNames,
                   status : StatusCodes]

----------------------------------------------------------------------------
(* Helpers *)

EmptyMapping == <<>>

ToSet(list) == {list[i] : i \in 1..Len(list)}

\* d[key] = value of a Python dict
DictSet(d, key, value) ==
    [k \in DOMAIN d \cup {key} |-> IF k = key THEN value ELSE d[k]]

----------------------------------------------------------------------------
(* get_region_services *)

\* region_services[region['name']] = set(region['service_ids'])
MergeRegion(rs, region) ==
    DictSet(rs, region.name,
            (IF region.name \in DOMAIN rs THEN rs[region.name] ELSE {})
                \cup ToSet(region.service_ids))

AddRegion(rs, region) ==
    DictSet(rs, region.name, ToSet(region.service_ids))

----------------------------------------------------------------------------
(* get_service_statuses *)

AllDownOverallStatus ==
    [all_up |-> FALSE, count_status_1 |-> 0, count_status_2 |-> 0,
     count_status_3 |-> 0]

InitialOverallStatus ==
    [all_up |-> TRUE, count_status_1 |-> 0, count_status_2 |-> 0,
     count_status_3 |-> 0]

RecordService(ss, service) ==
    DictSet(ss, service.service_id,
            [name |-> service.service_name, status |-> service.status])

\* a slip: a status-1 record sets all_up back to True
CountStatusResetting(os, status) ==
    IF status = 1
    THEN [os EXCEPT !.count_status_1 = @ + 1, !.all_up = TRUE]
    ELSE IF status = 2
    THEN [os EXCEPT !.count_status_2 = @ + 1, !.all_up = FALSE]
    ELSE IF status = 3
    THEN [os EXCEPT !.count_status_3 = @ + 1, !.all_up = FALSE]
    ELSE os

\* a slip: a final else in place of elif status == 3
CountStatusElse(os, status) ==
    IF status = 1
    THEN [os EXCEPT !.count_status_1 = @ + 1]
    ELSE IF status = 2
    THEN [os EXCEPT !.count_status_2 = @ + 1, !.all_up = FALSE]
    ELSE [os EXCEPT !.count_status_3 = @ + 1, !.all_up = FALSE]

CountStatus(os, status) ==
    IF status = 1
    THEN [os EXCEPT !.count_status_1 = @ + 1]
    ELSE IF status = 2
    THEN [os EXCEPT !.count_status_2 = @ + 1, !.all_up = FALSE]
    ELSE IF status = 3
    THEN [os EXCEPT !.count_status_3 = @ + 1, !.all_up = FALSE]
    ELSE os

----------------------------------------------------------------------------
(* create_report *)

\* a slip: only status 3 is shown as Down
StatusTextNotDown(service) == IF service.status = 3 THEN "Down" ELSE "Up"

StatusText(service) == IF service.status = 1 THEN "Up" ELSE "Down"

\* a slip: a service whose status code is not listed is skipped as well
ListedIdsKnownStatus(service_ids, ss) ==
    {id \in service_ids \cap DOMAIN ss : ss[id].status \in {1, 2, 3}}

\* if service_id in service_statuses
ListedIds(service_ids, ss) == service_ids \cap DOMAIN ss

\* one <li> of a region: service_id is kept only to tell the entries apart
Entry(ss, service_id) ==
    [service_id |-> service_id, name |-> ss[service_id].name,
     status |-> StatusText(ss[service_id])]

RegionEntries(service_ids, ss) ==
    {Entry(ss, id) : id \in ListedIds(service_ids, ss)}

\* region_status of the detailed section, with the two counts printed
RegionStatus(service_ids, ss) ==
    LET entries == RegionEntries(service_ids, ss)
        up == {e \in entries : e.status = "Up"}
        down == {e \in entries : e.status = "Down"}
    IN  [Up |-> up, Down |-> down,
         services_up |-> Cardinality(up), services_down |-> Cardinality(down)]

CreateReport(rs, ss, os) ==
    [regions |-> Cardinality(DOMAIN rs),
     services |-> Cardinality(DOMAIN ss),
     overall |-> IF os.all_up THEN "All services up" ELSE "Some services are down",
     all_services_up |-> os.all_up,
     services_up |-> os.count_status_1,
     services_with_issues |-> os.count_status_2,
     services_down |-> os.count_status_3,
     by_region |-> [r \in DOMAIN rs |-> RegionEntries(rs[r], ss)],
     detailed |-> [r \in DOMAIN rs |-> RegionStatus(rs[r], ss)]]

----------------------------------------------------------------------------
(* The run *)

Init ==
    /\ script \in Scripts
    /\ pc = "start"
    /\ region_fetch = "none"
    /\ status_fetch = "none"
    /\ region_data = <<>>
    /\ status_data = <<>>
    /\ region_services = EmptyMapping
    /\ service_statuses = EmptyMapping
    /\ overall_status = <<>>
    /\ report = <<>>
    /\ file = <<>>
    /\ use_tls = FALSE
    /\ smtp_raised = ""
    /\ log = {}
    /\ error = ""

\* fetch_data: the JSON body, or {} with the error logged (printed in Main.py)
FetchLog(outcome) == IF outcome = "failed" THEN log \cup {"fetch"} ELSE log

\* main -> create_report -> get_region_services, up to the loop
GetRegionServices ==
    /\ pc = "start"
    /\ \E outcome \in {"ok", "failed"} :
        /\ region_fetch' = outcome
        /\ log' = FetchLog(outcome)
    /\ region_data' = <<>>
    /\ region_services' = EmptyMapping
    /\ pc' = "regions_loop"
    /\ UNCHANGED <<script, status_fetch, status_data, service_statuses,
                   overall_status, report, file, use_tls, smtp_raised, error>>

\* one iteration of: for region in data
RegionStep ==
    /\ pc = "regions_loop"
    /\ region_fetch = "ok"
    /\ Len(region_data) < MaxRegions
    /\ \E region \in RegionRecords :
        /\ region_data' = Append(region_data, region)
        /\ region_services' = AddRegion(region_services, region)
    /\ UNCHANGED <<script, pc, region_fetch, status_fetch, status_data,
                   service_statuses, overall_status, report, file, use_tls,
                   smtp_raised, log, error>>

\* the loop ends; get_region_services returns and its data is gone
RegionsReturn ==
    /\ pc = "regions_loop"
    /\ pc' = "statuses_fetch"
    /\ region_data' = <<>>
    /\ UNCHANGED <<script, region_fetch, status_fetch, status_data,
                   region_services, service_statuses, overall_status, report,
                   file, use_tls, smtp_raised, log, error>>

\* get_service_statuses up to the test 'groups' in data
GetServiceStatuses ==
    /\ pc = "statuses_fetch"
    /\ \E outcome \in {"ok", "failed"}, groups \in BOOLEAN :
        /\ status_fetch' = outcome
        /\ log' = FetchLog(outcome)
        /\ pc' = IF outcome = "ok" /\ groups THEN "groups_loop"
                 ELSE "statuses_return"
    /\ status_data' = <<>>
    /\ service_statuses' = EmptyMapping
    /\ overall_status' = InitialOverallStatus
    /\ UNCHANGED <<script, region_fetch, region_data, region_services, report,
                   file, use_tls, smtp_raised, error>>

\* for group in data['groups']: the next group
NextGroup ==
    /\ pc = "groups_loop"
    /\ pc' = "services_loop"
    /\ UNCHANGED <<script, region_fetch, status_fetch, region_data, status_data,
                   region_services, service_statuses, overall_status, report,
                   file, use_tls, smtp_raised, log, error>>

\* one iteration of: for service in group['services']
ProcessService ==
    /\ pc = "services_loop"
    /\ Len(status_data) < MaxRecords
    /\ \E service \in ServiceRecords :
        /\ status_data' = Append(status_data, service)
        /\ service_statuses' = RecordService(service_statuses, service)
        /\ overall_status' = CountStatus(overall_status, service.status)
    /\ UNCHANGED <<script, pc, region_fetch, status_fetch, region_data,
                   region_services, report, file, use_tls, smtp_raised, log,
                   error>>

\* the services of the group are exhausted
EndGroup ==
    /\ pc = "services_loop"
    /\ pc' = "groups_loop"
    /\ UNCHANGED <<script, region_fetch, status_fetch, region_data, status_data,
                   region_services, service_statuses, overall_status, report,
                   file, use_tls, smtp_raised, log, error>>

\* the groups are exhausted
EndGroups ==
    /\ pc = "groups_loop"
    /\ pc' = "statuses_return"
    /\ UNCHANGED <<script, region_fetch, status_fetch, region_data, status_data,
                   region_services, service_statuses, overall_status, report,
                   file, use_tls, smtp_raised, log, error>>

\* a record without the key the loop reads: KeyError, nothing catches it
MalformedRecord ==
    /\ \/ pc = "regions_loop" /\ region_fetch = "ok"
       \/ pc \in {"groups_loop", "services_loop"}
    /\ pc' = "crashed"
    /\ error' = "KeyError"
    /\ UNCHANGED <<script, region_fetch, status_fetch, region_data, status_data,
                   region_services, service_statuses, overall_status, report,
                   file, use_tls, smtp_raised, log>>

\* get_service_statuses returns (its data is gone); create_report builds the document
BuildReport ==
    /\ pc = "statuses_return"
    /\ status_data' = <<>>
    /\ report' = <<CreateReport(region_services, service_statuses, overall_status)>>
    /\ pc' = "report_built"
    /\ UNCHANGED <<script, region_fetch, status_fetch, region_data,
                   region_services, service_statuses, overall_status, file,
                   use_tls, smtp_raised, log, error>>

\* create_report returns to main; its locals are gone
ReturnReport ==
    /\ pc = "report_built"
    /\ pc' = "save"
    /\ region_services' = EmptyMapping
    /\ service_statuses' = EmptyMapping
    /\ overall_status' = <<>>
    /\ UNCHANGED <<script, region_fetch, status_fetch, region_data, status_data,
                   report, file, use_tls, smtp_raised, log, error>>

\* a slip: the file is not written
SkipSaveReport ==
    /\ pc = "save"
    /\ pc' = "recipients"
    /\ UNCHANGED <<script, region_fetch, status_fetch, region_data, status_data,
                   region_services, service_statuses, overall_status, report,
                   file, use_tls, smtp_raised, log, error>>

\* with open(..., "w") as f: f.write(report); an OSError ends the run
SaveReport ==
    /\ pc = "save"
    /\ \/ /\ file' = report
          /\ pc' = "recipients"
          /\ error' = error
       \/ /\ file' \in {file, <<>>}
          /\ pc' = "crashed"
          /\ error' = "OSError"
    /\ UNCHANGED <<script, region_fetch, status_fetch, region_data, status_data,
                   region_services, service_statuses, overall_status, report,
                   use_tls, smtp_raised, log>>

\* os.getenv('EMAIL_RECIPIENTS').split(','): None has no split
GetRecipients ==
    /\ pc = "recipients"
    /\ \E is_set \in BOOLEAN :
        /\ pc' = IF is_set THEN "send_email" ELSE "crashed"
        /\ error' = IF is_set THEN error ELSE "AttributeError"
    /\ UNCHANGED <<script, region_fetch, status_fetch, region_data, status_data,
                   region_services, service_statuses, overall_status, report,
                   file, use_tls, smtp_raised, log>>

\* send_email up to the message: int(os.getenv('SMTP_PORT')) is outside the try
PrepareEmail ==
    /\ pc = "send_email"
    /\ \E port_ok \in BOOLEAN, tls \in BOOLEAN :
        /\ pc' = IF port_ok THEN "smtp_connect" ELSE "crashed"
        /\ error' = IF port_ok THEN error ELSE "TypeError"
        /\ use_tls' = IF port_ok THEN tls ELSE use_tls
    /\ UNCHANGED <<script, region_fetch, status_fetch, region_data, status_data,
                   region_services, service_statuses, overall_status, report,
                   file, smtp_raised, log>>

SmtpCalls == {"smtp_connect", "smtp_starttls", "smtp_login", "smtp_send"}

AfterSmtpCall(call, tls) ==
    IF call = "smtp_connect" THEN (IF tls THEN "smtp_starttls" ELSE "smtp_login")
    ELSE IF call = "smtp_starttls" THEN "smtp_login"
    ELSE IF call = "smtp_login" THEN "smtp_send"
    ELSE "email_returned"

\* smtplib.SMTP(...), starttls(), login(), send_message(): the call succeeds
SmtpCall ==
    /\ pc \in SmtpCalls
    /\ pc' = AfterSmtpCall(pc, use_tls)
    /\ UNCHANGED <<script, region_fetch, status_fetch, region_data, status_data,
                   region_services, service_statuses, overall_status, report,
                   file, use_tls, smtp_raised, log, error>>

\* main.py: the call raises, except Exception logs the error, send_email returns
SmtpRaiseCaught ==
    /\ pc \in SmtpCalls
    /\ script = "main"
    /\ smtp_raised' = pc
    /\ log' = log \cup {"email"}
    /\ pc' = "email_returned"
    /\ UNCHANGED <<script, region_fetch, status_fetch, region_data, status_data,
                   region_services, service_statuses, overall_status, report,
                   file, use_tls, error>>

\* Main.py: the call raises and send_email has no handler; the run ends
SmtpRaiseUncaught ==
    /\ pc \in SmtpCalls
    /\ script = "Main"
    /\ smtp_raised' = pc
    /\ pc' = "crashed"
    /\ error' = "SMTPException"
    /\ UNCHANGED <<script, region_fetch, status_fetch, region_data, status_data,
                   region_services, service_statuses, overall_status, report,
                   file, use_tls, log>>

\* send_email has returned; main ends
Complete ==
    /\ pc = "email_returned"
    /\ pc' = "done"
    /\ UNCHANGED <<script, region_fetch, status_fetch, region_data, status_data,
                   region_services, service_statuses, overall_status, report,
                   file, use_tls, smtp_raised, log, error>>

Next ==
    \/ GetRegionServices
    \/ RegionStep
    \/ RegionsReturn
    \/ GetServiceStatuses
    \/ NextGroup
    \/ ProcessService
    \/ EndGroup
    \/ EndGroups
    \/ MalformedRecord
    \/ BuildReport
    \/ ReturnReport
    \/ SaveReport
    \/ GetRecipients
    \/ PrepareEmail
    \/ SmtpCall
    \/ SmtpRaiseCaught
    \/ SmtpRaiseUncaught
    \/ Complete

Spec == Init /\ [][Next]_vars

----------------------------------------------------------------------------
(* Properties *)

StatusPhase == {"groups_loop", "services_loop", "statuses_return"}
EmailStep == {"recipients", "send_email", "email_returned", "done"} \cup SmtpCalls
EmailErrors == {"AttributeError", "TypeError", "SMTPException"}

WithStatus(data, codes) == {i \in 1..Len(data) : data[i].status \in codes}
CountSum(os) == os.count_status_1 + os.count_status_2 + os.count_status_3

\* C1: an exception raised by an SMTP call is caught and logged, send_email
\* returns and the run ends without an error, in main.py and in Main.py.
C1_EmailErrorSwallowed ==
    smtp_raised # "" =>
        /\ pc \in {"email_returned", "done"}
        /\ "email" \in log
        /\ error = ""

\* C2: once the email step has started, and at the end of the run whatever
\* the email step did (sent, raised, no recipients, bad port), the file holds
\* exactly the report create_report returned.
C2_FileHoldsReport ==
    (pc \in EmailStep \/ (pc = "crashed" /\ error \in EmailErrors)) =>
        /\ report # <<>>
        /\ file = report

C2_Witness ==
    /\ pc = "crashed"
    /\ error = "SMTPException"
    /\ smtp_raised = "smtp_login"
    /\ report # <<>>
    /\ file = report

\* C3: while and after the service records are walked, the three counters
\* add up to at most the number of records processed, to exactly that number
\* iff no record has a status outside {1,2,3}, and all_up is true iff
\* count_status_2 and count_status_3 are both 0.
C3_CountersAndAllUp ==
    pc \in StatusPhase =>
        /\ CountSum(overall_status) <= Len(status_data)
        /\ (CountSum(overall_status) = Len(status_data))
               <=> (WithStatus(status_data, StatusCodes \ {1, 2, 3}) = {})
        /\ overall_status.all_up
               <=> (overall_status.count_status_2 = 0
                    /\ overall_status.count_status_3 = 0)

C3_Witness ==
    /\ pc = "statuses_return"
    /\ Len(status_data) = 2
    /\ status_data[1].status = 3
    /\ status_data[2].status = 4
    /\ CountSum(overall_status) = 1
    /\ ~overall_status.all_up

\* C4: when get_service_statuses returns, all_up is true iff no service of
\* the returned status mapping has status 2 or 3, also when a service_id
\* occurs in several records.
C4_AllUpIffNoServiceDown ==
    pc = "statuses_return" =>
        (overall_status.all_up
            <=> \A id \in DOMAIN service_statuses :
                    service_statuses[id].status \notin {2, 3})

\* C5: the region mapping has one entry per distinct name iterated, and the
\* value of an entry is the set of service_ids of the last record with that
\* name (no union with earlier records of the name).
C5_LastRegionRecordWins ==
    pc = "regions_loop" =>
        /\ DOMAIN region_services
               = {region_data[i].name : i \in 1..Len(region_data)}
        /\ \A name \in DOMAIN region_services :
               \E last \in 1..Len(region_data) :
                   /\ region_data[last].name = name
                   /\ \A i \in (last + 1)..Len(region_data) :
                          region_data[i].name # name
                   /\ region_services[name]
                          = {region_data[last].service_ids[k] :
                                 k \in 1..Len(region_data[last].service_ids)}

C5_Witness ==
    /\ pc = "regions_loop"
    /\ Len(region_data) = 2
    /\ region_data[1].name = region_data[2].name
    /\ region_data[1].service_ids = <<"s1">>
    /\ region_data[2].service_ids = <<"s2">>
    /\ region_services[region_data[1].name] = {"s2"}

\* what a report without regions and services says
EmptyReport ==
    [regions |-> 0, services |-> 0, overall |-> "All services up",
     all_services_up |-> TRUE, services_up |-> 0, services_with_issues |-> 0,
     services_down |-> 0, by_region |-> <<>>, detailed |-> <<>>]

BothFetchesFailed == region_fetch = "failed" /\ status_fetch = "failed"

\* the upstream answered both requests, with no region and no service
EmptyHealthyAnswer ==
    /\ region_fetch = "ok"
    /\ status_fetch = "ok"
    /\ region_services = EmptyMapping
    /\ service_statuses = EmptyMapping

\* C6: with both fetches failed nothing is raised while the report is made,
\* and the report says 0 regions, 0 services, all services up and 0 for the
\* three counters: the very report an empty healthy answer gives.
C6_FailedFetchLooksHealthy ==
    /\ BothFetchesFailed => error # "KeyError"
    /\ (pc = "report_built" /\ (BothFetchesFailed \/ EmptyHealthyAnswer))
           => report = <<EmptyReport>>

C6_Witness ==
    /\ pc = "report_built"
    /\ BothFetchesFailed
    /\ report = <<EmptyReport>>
    /\ "fetch" \in log

EntryIds(entries) == {e.service_id : e \in entries}

\* C7: a service id of a region has an entry in the by-region listing and in
\* the detailed Up/Down lists iff it is a key of the status mapping; an id
\* without a status gives no entry of any kind and is in neither count.
C7_EntryIffStatusKnown ==
    pc = "report_built" =>
        \A r \in DOMAIN region_services :
            LET known == region_services[r] \cap DOMAIN service_statuses
                listed == report[1].by_region[r]
                detail == report[1].detailed[r]
            IN  /\ EntryIds(listed) = known
                /\ EntryIds(detail.Up \cup detail.Down) = known
                /\ Cardinality(listed) = Cardinality(known)
                /\ detail.services_up + detail.services_down
                       = Cardinality(known)
                /\ \A e \in listed \cup detail.Up \cup detail.Down :
                       e.name = service_statuses[e.service_id].name

C7_Witness ==
    /\ pc = "report_built"
    /\ "EU" \in DOMAIN region_services
    /\ region_services["EU"] = {"s1", "s2"}
    /\ DOMAIN service_statuses = {"s1"}
    /\ EntryIds(report[1].by_region["EU"]) = {"s1"}
    /\ report[1].detailed["EU"].services_up
           + report[1].detailed["EU"].services_down = 1

\* C8: a listed service is shown Up, and is in the Up list, iff its status
\* is 1; with status 2, 3 or any other code it is shown Down and is in the
\* Down list.  The summary counts the status-2 records under 'Services with
\* issues' and the status-3 records under 'Services down', and nothing else.
C8_UpOnlyForStatusOne ==
    /\ pc \in StatusPhase =>
           /\ overall_status.count_status_2
                  = Cardinality(WithStatus(status_data, {2}))
           /\ overall_status.count_status_3
                  = Cardinality(WithStatus(status_data, {3}))
    /\ pc = "report_built" =>
           /\ report[1].services_with_issues = overall_status.count_status_2
           /\ report[1].services_down = overall_status.count_status_3
           /\ \A r \in DOMAIN region_services :
                  LET detail == report[1].detailed[r]
                  IN  /\ \A e \in report[1].by_region[r] :
                             /\ e.status \in {"Up", "Down"}
                             /\ e.status = "Up"
                                    <=> service_statuses[e.service_id].status = 1
                             /\ e \in detail.Up <=> e.status = "Up"
                             /\ e \in detail.Down <=> e.status = "Down"
                      /\ detail.Up \cup detail.Down = report[1].by_region[r]
                      /\ detail.services_up = Cardinality(detail.Up)
                      /\ detail.services_down = Cardinality(detail.Down)

C8_Witness ==
    /\ pc = "report_built"
    /\ "US" \in DOMAIN region_services
    /\ region_services["US"] = {"s1", "s2"}
    /\ DOMAIN service_statuses = {"s1", "s2"}
    /\ service_statuses["s1"].status = 2
    /\ service_statuses["s2"].status = 3
    /\ report[1].detailed["US"].services_down = 2
    /\ report[1].services_with_issues = 1
    /\ report[1].services_down = 1

\* C9: all_up is true until a record is processed, turns false at the first
\* record with status 2 or 3 and at no other step, and stays false for the
\* rest of the run; no counter ever decreases.
C9_AllUpNeverFlipsBack ==
    /\ [](pc \in StatusPhase /\ status_data = <<>> => overall_status.all_up)
    /\ [][(pc \in StatusPhase /\ pc' \in StatusPhase) =>
            /\ overall_status'.count_status_1 >= overall_status.count_status_1
            /\ overall_status'.count_status_2 >= overall_status.count_status_2
            /\ overall_status'.count_status_3 >= overall_status.count_status_3
            /\ ~overall_status.all_up => ~overall_status'.all_up
            /\ status_data' = status_data
                   => overall_status'.all_up = overall_status.all_up
            /\ (overall_status.all_up /\ status_data' # status_data)
                   => (overall_status'.all_up
                          <=> status_data'[Len(status_data')].status
                                  \notin {2, 3})]_vars

C9_Witness ==
    /\ pc = "statuses_return"
    /\ Len(status_data) = 2
    /\ status_data[1].status = 2
    /\ status_data[2].status = 1
    /\ ~overall_status.all_up
    /\ overall_status.count_status_1 = 1

\* C10: a report whose summary says 'All services up' shows no service as
\* Down in any region, and every region's 'Services Down' count is 0.
C10_AllUpMeansNothingDown ==
    (pc = "report_built" /\ report[1].overall = "All services up") =>
        \A r \in DOMAIN region_services :
            /\ \A e \in report[1].by_region[r] : e.status # "Down"
            /\ report[1].detailed[r].Down = {}
            /\ report[1].detailed[r].services_down = 0

=============================================================================
